---- MODULE Spec2Model ----
(***************************************************************************)
(* Model of the bingo goals lookup service.                                *)
(*                                                                         *)
(* A JavaScript string is a sequence of characters (one-character TLA+     *)
(* strings); the fixed pieces of a template literal are kept as one        *)
(* element each.  A JavaScript value is a record tagged by its type in     *)
(* field t.  A JavaScript object used as a mapping is a record of its own  *)
(* properties (in creation order) and its prototype.                       *)
(***************************************************************************)
EXTENDS Integers, Sequences, FiniteSets, TLC

VARIABLES sheet, pc, route, param, fetchState, text, goals, matches, fetches, responses

vars == <<sheet, pc, route, param, fetchState, text, goals, matches, fetches, responses>>

(***************************************************************************)
(* Bounds                                                                  *)
(***************************************************************************)
MaxRows == 2

NumRequests == 2

(***************************************************************************)
(* JavaScript strings                                                      *)
(***************************************************************************)
IsWhiteSpace(c) == c \in {" ", "\t"}

toLowerCaseChar(c) ==
  CASE c = "A" -> "a"
    [] c = "B" -> "b"
    [] c = "C" -> "c"
    [] c = "L" -> "l"
    [] c = "O" -> "o"
    [] c = "S" -> "s"
    [] OTHER -> c

RECURSIVE toLowerCase(_)
toLowerCase(s) ==
  IF s = <<>> THEN <<>> ELSE <<toLowerCaseChar(Head(s))>> \o toLowerCase(Tail(s))

RECURSIVE trimStart(_)
trimStart(s) ==
  IF s # <<>> /\ IsWhiteSpace(Head(s)) THEN trimStart(Tail(s)) ELSE s

RECURSIVE trimEnd(_)
trimEnd(s) ==
  IF s # <<>> /\ IsWhiteSpace(s[Len(s)]) THEN trimEnd(SubSeq(s, 1, Len(s) - 1)) ELSE s

trim(s) == trimEnd(trimStart(s))

includes(s, t) ==
  \E i \in 1..(Len(s) - Len(t) + 1) : SubSeq(s, i, i + Len(t) - 1) = t

RECURSIVE split(_, _)
split(s, sep) ==
  IF \E i \in 1..Len(s) : s[i] = sep
  THEN LET i == CHOOSE i \in 1..Len(s) : s[i] = sep /\ \A j \in 1..(i - 1) : s[j] # sep
       IN  <<SubSeq(s, 1, i - 1)>> \o split(SubSeq(s, i + 1, Len(s)), sep)
  ELSE <<s>>

substring(s, from, to) ==
  SubSeq(s, from + 1, IF to < Len(s) THEN to ELSE Len(s))

slice(a, from, to) ==
  SubSeq(a, from + 1, IF to < Len(a) THEN to ELSE Len(a))

RECURSIVE join(_, _)
join(a, sep) ==
  IF a = <<>> THEN <<>>
  ELSE IF Len(a) = 1 THEN a[1]
  ELSE a[1] \o sep \o join(Tail(a), sep)

(***************************************************************************)
(* JavaScript values                                                       *)
(***************************************************************************)
Undefined == [t |-> "undefined"]

JString(s) == [t |-> "string", s |-> s]

ObjectPrototype == [t |-> "prototype"]

ObjectConstructor == [t |-> "function", name |-> <<"O", "b", "j", "e", "c", "t">>]

Truthy(v) ==
  CASE v.t = "undefined" -> FALSE
    [] v.t = "string" -> v.s # <<>>
    [] OTHER -> TRUE

IsObject(v) == v.t \in {"goal", "prototype", "function"}

\* `${v}` inside a template literal
Interpolate(v) ==
  CASE v.t = "string" -> v.s
    [] v.t = "undefined" -> <<"undefined">>
    [] v.t = "function" -> <<"function Object() { [native code] }">>
    [] OTHER -> <<"[object Object]">>

(***************************************************************************)
(* Property names the lookups can meet                                     *)
(***************************************************************************)
KeyProto == <<"_", "_", "p", "r", "o", "t", "o", "_", "_">>

KeyConstructor == <<"c", "o", "n", "s", "t", "r", "u", "c", "t", "o", "r">>

KeyToString == <<"t", "o", "S", "t", "r", "i", "n", "g">>

KeyName == <<"n", "a", "m", "e">>

KeyDescription == <<"d", "e", "s", "c", "r", "i", "p", "t", "i", "o", "n">>

KeyLevels == <<"l", "e", "v", "e", "l", "s">>

KeyDifficulty == <<"d", "i", "f", "f", "i", "c", "u", "l", "t", "y">>

KeyVideoLink == <<"v", "i", "d", "e", "o", "L", "i", "n", "k">>

(***************************************************************************)
(* JavaScript objects used as mappings: const goals = {}                   *)
(***************************************************************************)
Digits == {"0", "1", "2", "3", "4", "5", "6", "7", "8", "9"}

DigitValue(c) ==
  CASE c = "0" -> 0 [] c = "1" -> 1 [] c = "2" -> 2 [] c = "3" -> 3 [] c = "4" -> 4
    [] c = "5" -> 5 [] c = "6" -> 6 [] c = "7" -> 7 [] c = "8" -> 8 [] c = "9" -> 9

\* a < b for two strings of digits of the same length
RECURSIVE DigitsLess(_, _)
DigitsLess(a, b) ==
  /\ a # <<>>
  /\ \/ DigitValue(Head(a)) < DigitValue(Head(b))
     \/ Head(a) = Head(b) /\ DigitsLess(Tail(a), Tail(b))

\* numeric order of canonical numeric strings
IndexLess(a, b) ==
  Len(a) < Len(b) \/ (Len(a) = Len(b) /\ DigitsLess(a, b))

\* 2^32 - 1, the first integer that is not an array index
IndexLimit == <<"4", "2", "9", "4", "9", "6", "7", "2", "9", "5">>

\* A property key that is an array index: a canonical numeric string below 2^32 - 1.
IsArrayIndex(k) ==
  /\ k # <<>>
  /\ \A i \in 1..Len(k) : k[i] \in Digits
  /\ Len(k) > 1 => k[1] # "0"
  /\ IndexLess(k, IndexLimit)

EmptyObject == [order |-> <<>>, vals |-> <<>>, proto |-> ObjectPrototype]

HasOwn(o, k) == \E i \in 1..Len(o.order) : o.order[i] = k

OwnValue(o, k) == o.vals[CHOOSE i \in 1..Len(o.order) : o.order[i] = k]

\* o[k] = v
Put(o, k, v) ==
  IF k = KeyProto
  THEN IF IsObject(v) THEN [o EXCEPT !.proto = v] ELSE o
  ELSE IF HasOwn(o, k)
  THEN [o EXCEPT !.vals[CHOOSE i \in 1..Len(o.order) : o.order[i] = k] = v]
  ELSE [o EXCEPT !.order = Append(@, k), !.vals = Append(@, v)]

\* the properties of a goal record, of a function and of Object.prototype
ObjectPrototypeGet(k, receiverProto) ==
  CASE k = KeyConstructor -> ObjectConstructor
    [] k = KeyProto -> receiverProto
    [] k = KeyToString -> [t |-> "function", name |-> KeyToString]
    [] OTHER -> Undefined

GoalGet(g, k) ==
  CASE k = KeyName -> JString(g.name)
    [] k = KeyDescription -> JString(g.description)
    [] k = KeyLevels -> JString(g.levels)
    [] k = KeyDifficulty -> JString(g.difficulty)
    [] k = KeyVideoLink -> JString(g.videoLink)
    [] OTHER -> ObjectPrototypeGet(k, ObjectPrototype)

\* o[k], own properties first, then the prototype chain
Get(o, k) ==
  IF HasOwn(o, k) THEN OwnValue(o, k)
  ELSE IF o.proto.t = "goal" /\ k \in {KeyName, KeyDescription, KeyLevels, KeyDifficulty, KeyVideoLink}
  THEN GoalGet(o.proto, k)
  ELSE ObjectPrototypeGet(k, o.proto)

\* v[k] for the values a handler can hold
GetProperty(v, k) ==
  CASE v.t = "goal" -> GoalGet(v, k)
    [] v.t = "function" -> IF k = KeyName THEN JString(v.name) ELSE ObjectPrototypeGet(k, ObjectPrototype)
    [] OTHER -> ObjectPrototypeGet(k, ObjectPrototype)

RECURSIVE SortIndices(_)
SortIndices(S) ==
  IF S = {} THEN <<>>
  ELSE LET m == CHOOSE x \in S : \A y \in S \ {x} : IndexLess(x, y)
       IN  <<m>> \o SortIndices(S \ {m})

IsNotArrayIndex(k) == ~IsArrayIndex(k)

\* Own property keys in the order Object.entries and Object.values visit them:
\* array indices ascending, then the other keys in creation order.
ObjectKeys(o) ==
  SortIndices({o.order[i] : i \in {j \in 1..Len(o.order) : IsArrayIndex(o.order[j])}})
    \o SelectSeq(o.order, IsNotArrayIndex)

ObjectValues(o) ==
  LET ks == ObjectKeys(o) IN [i \in 1..Len(ks) |-> OwnValue(o, ks[i])]

(***************************************************************************)
(* loadGoals (the rows are what csv-parser hands to the "data" listener)   *)
(***************************************************************************)
Row(n, d, l, f, v) ==
  [Name |-> n, Description |-> d, Levels |-> l, Difficulty |-> f, VideoLink |-> v]

goalRecord(row) ==
  [t |-> "goal",
   name |-> trim(row.Name.s),
   description |-> trim(row.Description.s),
   levels |-> IF Truthy(row.Levels) THEN trim(row.Levels.s) ELSE <<>>,
   difficulty |-> IF Truthy(row.Difficulty) THEN trim(row.Difficulty.s) ELSE <<>>,
   videoLink |-> IF Truthy(row.VideoLink) THEN trim(row.VideoLink.s) ELSE <<>>]

\* if (row.Name) alone
onDataNameOnly(acc, row) ==
  IF Truthy(row.Name)
  THEN Put(acc, toLowerCase(trim(row.Name.s)),
           IF Truthy(row.Description) THEN goalRecord(row)
           ELSE goalRecord([row EXCEPT !.Description = JString(<<>>)]))
  ELSE acc

onData(acc, row) ==
  IF Truthy(row.Name) /\ Truthy(row.Description)
  THEN LET goalName == toLowerCase(trim(row.Name.s))
       IN  Put(acc, goalName, goalRecord(row))
  ELSE acc

RECURSIVE loadRows(_, _)
loadRows(acc, rows) ==
  IF rows = <<>> THEN acc ELSE loadRows(onData(acc, Head(rows)), Tail(rows))

loadGoals(rows) == loadRows(EmptyObject, rows)

\* index.js: the mapping holds the description alone
onDataV1(acc, row) ==
  IF Truthy(row.Name) /\ Truthy(row.Description)
  THEN Put(acc, toLowerCase(trim(row.Name.s)), JString(trim(row.Description.s)))
  ELSE acc

RECURSIVE loadRowsV1(_, _)
loadRowsV1(acc, rows) ==
  IF rows = <<>> THEN acc ELSE loadRowsV1(onDataV1(acc, Head(rows)), Tail(rows))

loadGoalsV1(rows) == loadRowsV1(EmptyObject, rows)

(***************************************************************************)
(* searchGoals                                                             *)
(***************************************************************************)
everyWordIncluded(key, queryLower) ==
  LET words == split(queryLower, " ")
  IN  \A i \in 1..Len(words) : includes(key, words[i])

partialMatch(key, queryLower) ==
  includes(key, queryLower) \/ everyWordIncluded(key, queryLower)

exactMatchSkipped(g, queryLower) == Undefined

exactMatch(g, queryLower) == Get(g, queryLower)

searchGoals(g, query) ==
  LET queryLower == toLowerCase(query)
      keys == ObjectKeys(g)
      hit(k) == partialMatch(k, queryLower)
      hits == SelectSeq(keys, hit)
  IN  IF Truthy(exactMatch(g, queryLower))
      THEN <<exactMatch(g, queryLower)>>
      ELSE [i \in 1..Len(hits) |-> OwnValue(g, hits[i])]

(***************************************************************************)
(* formatGoal and the compact format                                       *)
(***************************************************************************)
Thrown == [t |-> "TypeError"]

optionalLine(goal, k, label) ==
  IF Truthy(GetProperty(goal, k))
  THEN <<label>> \o Interpolate(GetProperty(goal, k))
  ELSE <<>>

\* the emoji of the three labels are written as words
formatGoalBody(goal, includeAll) ==
       JString(
         <<"**">> \o Interpolate(GetProperty(goal, KeyName)) \o <<"**: ">>
           \o Interpolate(GetProperty(goal, KeyDescription))
           \o (IF includeAll
               THEN optionalLine(goal, KeyLevels, "\n(pin) **Level(s):** ")
                      \o optionalLine(goal, KeyDifficulty, "\n(star) **Difficulty:** ")
                      \o optionalLine(goal, KeyVideoLink, "\n(camera) **Video:** ")
               ELSE <<>>))

\* goal?.name in place of goal.name: no throw on undefined
formatGoalUnguarded(goal, includeAll) == formatGoalBody(goal, includeAll)

\* reading a property of undefined throws
formatGoal(goal, includeAll) ==
  IF goal.t = "undefined" THEN Thrown ELSE formatGoalBody(goal, includeAll)

formatCompact(goal) ==
  JString(
    Interpolate(GetProperty(goal, KeyName)) \o <<": ">>
      \o Interpolate(GetProperty(goal, KeyDescription))
      \o optionalLine(goal, KeyLevels, " | ")
      \o optionalLine(goal, KeyDifficulty, " | "))

goalNames(gs) == [i \in 1..Len(gs) |-> gs[i].name]

(***************************************************************************)
(* Responses                                                               *)
(***************************************************************************)
Response(status, body) == [status |-> status, body |-> body]

Text(s) == [t |-> "text", s |-> s]

\* (req.query.name || "").trim()
queryOf(name) == IF Truthy(name) THEN trim(name.s) ELSE <<>>

\* what the handler does once loadGoals has returned g: its matches and its response
GoalOutcomes(name, g) ==
  LET query == queryOf(name)
      found == searchGoals(g, query)
  IN  {[matches |-> found,
        response |->
          IF Len(found) = 0
          THEN Response(404, Text(<<"Goal \"">> \o Interpolate(name)
                 \o <<"\" not found. Check spelling or try another goal.">>))
          ELSE IF Len(found) = 1
          THEN Response(200, Text(formatGoal(found[1], TRUE).s))
          ELSE Response(200, Text(<<"Multiple goals found: ">>
                 \o join(goalNames(slice(found, 0, 5)), <<",", " ">>)
                 \o <<". Please be more specific!">>))]}

CompactOutcomes(name, g) ==
  LET query == queryOf(name)
      found == searchGoals(g, query)
  IN  {[matches |-> found,
        response |->
          IF Len(found) = 0
          THEN Response(404, Text(<<"Goal \"">> \o Interpolate(name) \o <<"\" not found.">>))
          ELSE IF Len(found) = 1
          THEN Response(200, Text(formatCompact(found[1]).s))
          ELSE Response(200, Text(<<"Multiple found: ">>
                 \o join(goalNames(slice(found, 0, 3)), <<",", " ">>)
                 \o <<". Be specific!">>))]}

overview(goal) ==
  [name |-> goal.name,
   description |-> substring(goal.description, 0, 100) \o <<"...">>,
   levels |-> goal.levels,
   difficulty |-> goal.difficulty,
   hasVideo |-> goal.videoLink # <<>>]

GoalsOutcomes(g) ==
  LET all == ObjectValues(g)
      goalList == [i \in 1..Len(all) |-> overview(all[i])]
  IN  {[matches |-> <<>>,
        response |-> Response(200, [t |-> "json", totalGoals |-> Len(goalList), goals |-> goalList])]}

\* goal.difficulty === level in place of includes
difficultyEquals(goal, level) == goal.difficulty = level

difficultyMatches(goal, level) == includes(goal.difficulty, level)

DifficultyOutcomes(level, g) ==
  LET all == ObjectValues(g)
      keep(goal) == difficultyMatches(goal, level)
      filteredGoals == SelectSeq(all, keep)
      names == goalNames(filteredGoals)
  IN  {[matches |-> <<>>,
        response |->
          IF Len(filteredGoals) = 0
          THEN Response(404, Text(<<"No goals found with difficulty \"">> \o level \o <<"\"">>))
          ELSE Response(200, [t |-> "json", difficulty |-> level, count |-> Len(names), goals |-> names])]}

\* Math.floor(Math.random() * goalArray.length) is any index of the array, and 0 when
\* the array is empty, where goalArray[0] is undefined
RandomOutcomes(g) ==
  LET goalArray == ObjectValues(g)
      picks == IF Len(goalArray) = 0 THEN {Undefined}
               ELSE {goalArray[i] : i \in 1..Len(goalArray)}
  IN  {[matches |-> <<>>,
        response |->
          IF formatGoal(randomGoal, TRUE) = Thrown
          THEN Response(500, Text(<<"Error fetching goals.">>))
          ELSE Response(200, Text(formatGoal(randomGoal, TRUE).s))] : randomGoal \in picks}

\* index.js: the query is lowercased by the handler and looked up directly.  What
\* res.send does with a value that is no string is decided outside this repository:
\* it may send it (200) or throw into the catch block (500).
GoalV1Outcomes(name, g) ==
  LET query == toLowerCase(queryOf(name))
      v == Get(g, query)
  IN  IF Truthy(v)
      THEN IF v.t = "string"
           THEN {[matches |-> <<v>>, response |-> Response(200, Text(v.s))]}
           ELSE {[matches |-> <<v>>, response |-> Response(200, Text(Interpolate(v)))],
                 [matches |-> <<v>>,
                  response |-> Response(500, Text(<<"Error fetching goals from Google Sheets.">>))]}
      ELSE {[matches |-> <<>>,
             response |-> Response(404, Text(<<"Goal '">> \o query \o <<"' not found.">>))]}

(***************************************************************************)
(* Inputs: rows of the sheet and requests                                  *)
(***************************************************************************)
Str(s) == JString(s)

RowInputs ==
  { Row(Str(<<"A", " ", "b">>), Str(<<"d">>), Str(<<"l">>), Str(<<"*">>), Str(<<"v">>)),
    Row(Str(<<"b", " ", "a", " ", "c">>), Str(<<"e">>), Str(<<>>), Str(<<"*", "*">>), Undefined),
    Row(Str(<<"2", "0">>), Str(<<"d">>), Str(<<"l">>), Str(<<"*", "*", "*">>), Str(<<>>)),
    Row(Str(<<"1", "0">>), Str(<<"e">>), Undefined, Undefined, Str(<<"v">>)),
    Row(Str(<<" ">>), Str(<<"d">>), Str(<<>>), Str(<<"*">>), Str(<<>>)),
    Row(Str(<<"a">>), Str(<<" ">>), Str(<<>>), Str(<<" ", "*", " ">>), Str(<<>>)),
    Row(Str(<<>>), Str(<<"d">>), Str(<<"l">>), Str(<<"*">>), Str(<<>>)),
    Row(Str(<<"c">>), Undefined, Str(<<"l">>), Str(<<"*">>), Str(<<>>)),
    Row(Str(KeyProto), Str(<<"d">>), Str(<<>>), Str(<<"*">>), Str(<<>>)),
    Row(Str(<<" ", "a", " ", "B", "\t">>), Str(<<" ", "f">>), Str(<<>>), Str(<<>>), Str(<<>>)),
    Row(Str(KeyConstructor), Str(<<"d">>), Str(<<>>), Str(<<>>), Str(<<>>)) }

PlainRow(n) == Row(Str(n), Str(<<"d">>), Str(<<>>), Str(<<"*">>), Str(<<>>))

\* six keys that all contain "0", two of them array indices
BigSheet ==
  << PlainRow(<<"b", "0">>), PlainRow(<<"2", "0">>), PlainRow(<<"1", "0">>),
     PlainRow(<<"0", "a">>), PlainRow(<<"a", "0">>), PlainRow(<<"c", "0">>) >>

RECURSIVE SeqsUpTo(_, _)
SeqsUpTo(S, n) ==
  IF n = 0 THEN {<<>>}
  ELSE LET shorter == SeqsUpTo(S, n - 1)
       IN  shorter \cup {Append(q, x) : q \in shorter, x \in S}

AllSheets == SeqsUpTo(RowInputs, MaxRows) \cup {BigSheet}

NameInputs ==
  { Undefined,
    Str(<<" ">>),
    Str(<<" ", "A", " ", "B", " ">>),
    Str(<<"a">>),
    Str(<<"0">>),
    Str(<<"z", "z">>),
    Str(<<"c", " ", " ", "b">>),
    Str(<<"a", "\t", "b">>),
    Str(KeyConstructor),
    Str(KeyProto),
    Str(KeyName) }

LevelInputs == { <<"*">>, <<"*", "*">>, <<"z">> }

SearchRoutes == {"goal", "compact", "goalV1"}

LoadingRoutes == SearchRoutes \cup {"goals", "difficulty", "random"}

Request(rt, p) == [route |-> rt, param |-> p]

AllRequests ==
  {Request(rt, n) : rt \in SearchRoutes, n \in NameInputs}
    \cup {Request("difficulty", Str(l)) : l \in LevelInputs}
    \cup {Request(rt, Undefined) : rt \in {"goals", "random", "health", "root"}}

\* the sheets and requests of the runs with concurrent requests
SheetA == << Row(Str(<<"a">>), Str(<<"d">>), Str(<<>>), Str(<<"*">>), Str(<<>>)) >>

SheetB == << Row(Str(<<"a">>), Str(<<"e">>), Str(<<>>), Str(<<"*">>), Str(<<>>)) >>

ConcSheets == {SheetA, SheetB}

ConcRequests ==
  { Request("goal", Str(<<"a">>)), Request("goal", Str(<<" ">>)),
    Request("random", Undefined), Request("health", Undefined) }

Requests == 1..NumRequests

(***************************************************************************)
(* The request handlers as steps                                           *)
(***************************************************************************)
\* a module-level goals object would be one mapping for all calls
SharedSlot(r) == 1

\* const goals = {} inside loadGoals: every call builds a mapping of its own
GoalsSlot(r) == r

\* if (!query) return res.status(400)...
BlankName(rt, p) == rt \in SearchRoutes /\ queryOf(p) = <<>>

BadRequest == Response(400, Text(<<"Please provide a goal name (?name=...)">>))

StaticResponse(rt) ==
  IF rt = "health" THEN Response(200, Text(<<"Bingo bot is running!">>))
  ELSE Response(200, Text(<<"<h1>Rayman 2 Bingo Goals API</h1>...">>))

\* the catch block of each handler
ErrorResponse(rt) ==
  IF rt \in {"goal", "goals", "goalV1"}
  THEN Response(500, Text(<<"Error fetching goals from Google Sheets.">>))
  ELSE Response(500, Text(<<"Error fetching goals.">>))

Load(rt, rows) == IF rt = "goalV1" THEN loadGoalsV1(rows) ELSE loadGoals(rows)

Outcomes(rt, p, g) ==
  CASE rt = "goal" -> GoalOutcomes(p, g)
    [] rt = "compact" -> CompactOutcomes(p, g)
    [] rt = "goalV1" -> GoalV1Outcomes(p, g)
    [] rt = "goals" -> GoalsOutcomes(g)
    [] rt = "difficulty" -> DifficultyOutcomes(p.s, g)
    [] rt = "random" -> RandomOutcomes(g)

Init ==
  /\ sheet \in AllSheets
  /\ pc = [r \in Requests |-> "idle"]
  /\ route = [r \in Requests |-> "none"]
  /\ param = [r \in Requests |-> Undefined]
  /\ fetchState = [r \in Requests |-> "none"]
  /\ text = [r \in Requests |-> <<>>]
  /\ goals = [r \in Requests |-> EmptyObject]
  /\ matches = [r \in Requests |-> <<>>]
  /\ fetches = [r \in Requests |-> 0]
  /\ responses = [r \in Requests |-> <<>>]

ConcInit ==
  /\ sheet \in ConcSheets
  /\ pc = [r \in Requests |-> "idle"]
  /\ route = [r \in Requests |-> "none"]
  /\ param = [r \in Requests |-> Undefined]
  /\ fetchState = [r \in Requests |-> "none"]
  /\ text = [r \in Requests |-> <<>>]
  /\ goals = [r \in Requests |-> EmptyObject]
  /\ matches = [r \in Requests |-> <<>>]
  /\ fetches = [r \in Requests |-> 0]
  /\ responses = [r \in Requests |-> <<>>]

\* A request arrives; the handler runs up to its first await.
Receive(r, inputs) ==
  /\ pc[r] = "idle"
  /\ \E q \in inputs :
       /\ route' = [route EXCEPT ![r] = q.route]
       /\ param' = [param EXCEPT ![r] = q.param]
       /\ IF q.route \in LoadingRoutes
          THEN IF BlankName(q.route, q.param)
               THEN /\ responses' = [responses EXCEPT ![r] = Append(@, BadRequest)]
                    /\ pc' = [pc EXCEPT ![r] = "done"]
                    /\ UNCHANGED <<fetches, fetchState>>
               ELSE /\ fetches' = [fetches EXCEPT ![r] = @ + 1]
                    /\ fetchState' = [fetchState EXCEPT ![r] = "pending"]
                    /\ pc' = [pc EXCEPT ![r] = "fetching"]
                    /\ UNCHANGED responses
          ELSE /\ responses' = [responses EXCEPT ![r] = Append(@, StaticResponse(q.route))]
               /\ pc' = [pc EXCEPT ![r] = "done"]
               /\ UNCHANGED <<fetches, fetchState>>
  /\ UNCHANGED <<sheet, text, goals, matches>>

\* fetch and response.text() resolve with the sheet as it is now; the rows are parsed
\* into the mapping of this call.
FetchResolve(r) ==
  /\ pc[r] = "fetching"
  /\ text' = [text EXCEPT ![r] = sheet]
  /\ goals' = [goals EXCEPT ![GoalsSlot(r)] = Load(route[r], sheet)]
  /\ fetchState' = [fetchState EXCEPT ![r] = "resolved"]
  /\ pc' = [pc EXCEPT ![r] = "loaded"]
  /\ UNCHANGED <<sheet, route, param, matches, fetches, responses>>

\* fetch rejects, or the parser emits "error": the catch block answers.
FetchFail(r) ==
  /\ pc[r] = "fetching"
  /\ fetchState' = [fetchState EXCEPT ![r] = "rejected"]
  /\ responses' = [responses EXCEPT ![r] = Append(@, ErrorResponse(route[r]))]
  /\ pc' = [pc EXCEPT ![r] = "done"]
  /\ UNCHANGED <<sheet, route, param, text, goals, matches, fetches>>

\* a blocking fetch would hold every handler back while one request waits
CanContinueBlocking(r) == pc[r] = "loaded" /\ \A o \in Requests : pc[o] # "fetching"

CanContinue(r) == pc[r] = "loaded"

\* the handler goes on after await loadGoals()
Respond(r) ==
  /\ CanContinue(r)
  /\ \E o \in Outcomes(route[r], param[r], goals[GoalsSlot(r)]) :
       /\ matches' = [matches EXCEPT ![r] = o.matches]
       /\ responses' = [responses EXCEPT ![r] = Append(@, o.response)]
  /\ pc' = [pc EXCEPT ![r] = "done"]
  /\ UNCHANGED <<sheet, route, param, fetchState, text, goals, fetches>>

\* somebody edits the spreadsheet
EditSheet ==
  /\ sheet' \in ConcSheets \ {sheet}
  /\ UNCHANGED <<pc, route, param, fetchState, text, goals, matches, fetches, responses>>

\* one request against any sheet
Next ==
  \/ Receive(1, AllRequests)
  \/ FetchResolve(1)
  \/ FetchFail(1)
  \/ Respond(1)

Spec == Init /\ [][Next]_vars

\* concurrent requests while the sheet changes
ConcNext ==
  \/ \E r \in Requests : Receive(r, ConcRequests)
  \/ \E r \in Requests : FetchResolve(r)
  \/ \E r \in Requests : FetchFail(r)
  \/ \E r \in Requests : Respond(r)
  \/ EditSheet

\* The step of pc that Respond(r) takes.  Respond(r) has an outcome whenever
\* CanContinue(r) holds, and no other action takes pc[r] to "done" from "loaded", so a
\* step of ConcNext is a Continuation(r) step exactly when it is a Respond(r) step
\* (ContinuationIsRespond).
Continuation(r) == CanContinue(r) /\ pc' = [pc EXCEPT ![r] = "done"]

ContinuationIsRespond == [][\A r \in Requests : Continuation(r) <=> Respond(r)]_vars

\* The event loop runs every continuation that is ready: weak fairness of the
\* handler's step after await loadGoals().  Nothing makes the remote answer, so
\* FetchResolve and FetchFail carry no fairness.
ConcSpec == ConcInit /\ [][ConcNext]_vars /\ \A r \in Requests : WF_pc(Continuation(r))

(***************************************************************************)
(* Properties                                                              *)
(***************************************************************************)
Loaded(r) == fetchState[r] = "resolved"

Answered(r) == pc[r] = "done" /\ Loaded(r)

Searched(r) == Answered(r) /\ route[r] \in {"goal", "compact"}

\* the query searchGoals compares with the keys
LowerQuery(r) == toLowerCase(queryOf(param[r]))

OwnKeySet(g) == {g.order[i] : i \in 1..Len(g.order)}

Elements(q) == {q[i] : i \in 1..Len(q)}

\* C1: a query that, trimmed and lowercased, equals a key of the loaded mapping makes
\* searchGoals return exactly the record stored under that key, whatever other keys
\* contain the query.
C1_ExactMatchWins ==
  \A r \in Requests :
    (Searched(r) /\ HasOwn(goals[r], LowerQuery(r)))
      => matches[r] = <<OwnValue(goals[r], LowerQuery(r))>>

C1_Witness ==
  \E r \in Requests :
    /\ Searched(r)
    /\ HasOwn(goals[r], LowerQuery(r))
    /\ \E k \in OwnKeySet(goals[r]) : k # LowerQuery(r) /\ includes(k, LowerQuery(r))
    /\ Len(matches[r]) = 1

RECURSIVE WhitespaceTokens(_)
WhitespaceTokens(q) ==
  IF q = <<>> THEN {}
  ELSE IF IsWhiteSpace(Head(q)) THEN WhitespaceTokens(Tail(q))
  ELSE LET n == CHOOSE n \in 1..Len(q) :
                  /\ \A i \in 1..n : ~IsWhiteSpace(q[i])
                  /\ n = Len(q) \/ IsWhiteSpace(q[n + 1])
       IN  {SubSeq(q, 1, n)} \cup WhitespaceTokens(SubSeq(q, n + 1, Len(q)))

FuzzyRule(k, q) ==
  includes(k, q) \/ \A w \in WhitespaceTokens(q) : includes(k, w)

\* C2: for a non-blank query that equals no key, searchGoals returns exactly the records
\* whose key contains the lowercased query or every whitespace-separated token of it,
\* and nothing when no key does.
C2_FuzzySetExact ==
  \A r \in Requests :
    (Searched(r) /\ ~HasOwn(goals[r], LowerQuery(r)))
      => Elements(matches[r])
           = {OwnValue(goals[r], k) : k \in {x \in OwnKeySet(goals[r]) : FuzzyRule(x, LowerQuery(r))}}

\* a value searchGoals returned that is a goal of the dataset
IsRecord(v, g) == v.t = "goal" \/ \E k \in OwnKeySet(g) : OwnValue(g, k) = v

ReturnsNoRecord(r) == \A i \in 1..Len(matches[r]) : ~IsRecord(matches[r][i], goals[r])

\* C3: a finished GET /goal or /goal/compact request has exactly one response: 400 for
\* a missing or blank name, with no load; else 500 when the fetch or parse failed; else
\* 404 when the search returned no record; else 200.
C3_StatusDecided ==
  \A r \in Requests :
    route[r] \in SearchRoutes =>
      /\ Len(responses[r]) = (IF pc[r] = "done" THEN 1 ELSE 0)
      /\ pc[r] = "done" =>
           responses[r][1].status =
             (IF queryOf(param[r]) = <<>> THEN 400
              ELSE IF fetchState[r] = "rejected" THEN 500
              ELSE IF ReturnsNoRecord(r) THEN 404
              ELSE 200)
      /\ (pc[r] = "done" /\ queryOf(param[r]) = <<>>) => (fetches[r] = 0 /\ fetchState[r] = "none")

FormattedUndefined == Text(<<"**", "undefined", "**: ", "undefined">>)

EmptyRandom(r) == route[r] = "random" /\ Loaded(r) /\ Len(ObjectKeys(goals[r])) = 0

\* C4: GET /goal/random over zero records goes on to one response, the handler's error
\* answer, which is not the formatted text of an undefined record.
C4_RandomEmptyFallback ==
  \A r \in Requests :
    EmptyRandom(r) =>
      /\ pc[r] = "loaded" => ENABLED Respond(r)
      /\ pc[r] = "done" =>
           /\ responses[r] = <<ErrorResponse("random")>>
           /\ responses[r][1].body # FormattedUndefined

C4_Witness ==
  \E r \in Requests : EmptyRandom(r) /\ pc[r] = "done" /\ Len(text[r]) > 0

NonEmpty(v) == v.t = "string" /\ v.s # <<>>

ValidRow(row) == NonEmpty(row.Name) /\ NonEmpty(row.Description)

KeyOfRow(row) == toLowerCase(trim(row.Name.s))

ValidRowsFor(rows, k) == {i \in 1..Len(rows) : ValidRow(rows[i]) /\ KeyOfRow(rows[i]) = k}

LastOf(S) == CHOOSE i \in S : \A j \in S : j <= i

\* the description kept for a key, in either version of the loader
StoredDescription(rt, v) == IF rt = "goalV1" THEN v.s ELSE v.description

\* C5: after a load, a key is in the mapping exactly when some row with non-empty Name
\* and Description has it as trimmed lowercased Name, and its record is built from the
\* last such row, with non-empty trimmed name and description.
C5_KeysIffValidRows ==
  \A r \in Requests :
    Loaded(r) =>
      LET g == goals[r]
          rows == text[r]
          keys == OwnKeySet(g) \cup {KeyOfRow(rows[i]) : i \in {j \in 1..Len(rows) : ValidRow(rows[j])}}
      IN  \A k \in keys :
            /\ HasOwn(g, k) <=> ValidRowsFor(rows, k) # {}
            /\ HasOwn(g, k) =>
                 LET last == rows[LastOf(ValidRowsFor(rows, k))]
                     v == OwnValue(g, k)
                 IN  /\ StoredDescription(route[r], v) = trim(last.Description.s)
                     /\ route[r] # "goalV1" => v.name = trim(last.Name.s)
                     /\ route[r] # "goalV1" => v.name # <<>>
                     /\ StoredDescription(route[r], v) # <<>>

ContainsToken(g, token) ==
  {k \in OwnKeySet(g) : includes(OwnValue(g, k).difficulty, token)}

\* C7: GET /goals/difficulty/:level lists exactly the names of the records whose
\* difficulty contains the token, count being their number, and answers 404 exactly when
\* there is none.
C7_DifficultyContainment ==
  \A r \in Requests :
    (Answered(r) /\ route[r] = "difficulty") =>
      LET g == goals[r]
          hit == ContainsToken(g, param[r].s)
          resp == responses[r][1]
      IN  /\ resp.status = 404 <=> hit = {}
          /\ resp.status # 404 =>
               /\ resp.status = 200
               /\ Elements(resp.body.goals) = {OwnValue(g, k).name : k \in hit}
               /\ resp.body.count = Len(resp.body.goals)
               /\ resp.body.count = Cardinality(hit)

C7_Witness ==
  \E r \in Requests :
    /\ Answered(r) /\ route[r] = "difficulty" /\ param[r].s = <<"*">>
    /\ responses[r][1].status = 200
    /\ \E k \in OwnKeySet(goals[r]) : OwnValue(goals[r], k).difficulty = <<"*", "*">>
    /\ \E k \in OwnKeySet(goals[r]) : OwnValue(goals[r], k).difficulty = <<>>

\* C8: whatever the interleaving, a request answers from the rows its own fetch
\* returned: its mapping is the one built from them, and its response is one the handler
\* gives for its parameters over that mapping.
C8_OwnDatasetOnly ==
  \A r \in Requests :
    /\ Loaded(r) => goals[r] = Load(route[r], text[r])
    /\ Answered(r) =>
         \E o \in Outcomes(route[r], param[r], Load(route[r], text[r])) :
           responses[r] = <<o.response>> /\ matches[r] = o.matches

C8_Witness ==
  \E a, b \in Requests :
    /\ a # b /\ Answered(a) /\ Answered(b)
    /\ route[a] = "goal" /\ route[b] = "goal" /\ param[a] = param[b]
    /\ text[a] # text[b]
    /\ responses[a] # responses[b]

C9_Safety ==
  \A r \in Requests :
    /\ fetches[r] <= 1
    /\ fetchState[r] = "rejected" => (pc[r] = "done" /\ responses[r] = <<ErrorResponse(route[r])>>)
    /\ fetchState[r] = "pending" => responses[r] = <<>>

C9_Terminal ==
  \A r \in Requests :
    pc[r] = "done" => (pc'[r] = "done" /\ responses'[r] = responses[r] /\ fetches'[r] = fetches[r])

\* C9: a request fetches at most once; a failed fetch gives one final 500; a request
\* whose fetch is still out has no response; and a request whose own fetch has completed
\* gets its response whatever the other requests wait for.
C9_NoRetryNoBlocking ==
  /\ []C9_Safety
  /\ [][C9_Terminal]_vars
  /\ \A r \in Requests : Loaded(r) ~> (pc[r] = "done" /\ Len(responses[r]) = 1)

C9_Witness ==
  \E a, b \in Requests :
    /\ fetchState[a] = "pending" /\ fetches[a] = 1 /\ responses[a] = <<>>
    /\ Answered(b) /\ fetches[b] = 1 /\ Len(responses[b]) = 1

TookFuzzyPath(r) == Searched(r) /\ ~Truthy(Get(goals[r], LowerQuery(r)))

\* the keys of the mapping in the order of their first insertion
InsertionOrder(g) == g.order

ListedNames(r, found) ==
  IF route[r] = "goal"
  THEN Text(<<"Multiple goals found: ">> \o join(goalNames(slice(found, 0, 5)), <<",", " ">>)
         \o <<". Please be more specific!">>)
  ELSE Text(<<"Multiple found: ">> \o join(goalNames(slice(found, 0, 3)), <<",", " ">>)
         \o <<". Be specific!">>)

\* C10: on the fuzzy path the records come in the order their keys were first inserted
\* during the load, and a multiple-match response lists the first five names of that
\* sequence (the first three for the compact route).
C10_InsertionOrder ==
  \A r \in Requests :
    TookFuzzyPath(r) =>
      LET g == goals[r]
          q == LowerQuery(r)
          hit(k) == partialMatch(k, q)
          inOrder == SelectSeq(InsertionOrder(g), hit)
          expected == [i \in 1..Len(inOrder) |-> OwnValue(g, inOrder[i])]
      IN  /\ matches[r] = expected
          /\ Len(expected) > 1 => responses[r][1].body = ListedNames(r, expected)

====
